---- MODULE Spec2Model ----
(* A model of python-process: process.Process (blocking) and                *)
(* process.asyncio.Process (coroutine based), two wrappers of one child     *)
(* process with piped standard streams, two byte accumulators and a         *)
(* context-manager protocol.  One record and its child are modelled; the    *)
(* caller is one sequential program that calls the public methods in any    *)
(* order, and the child and the operating system take their own steps.      *)
EXTENDS Integers, Sequences, FiniteSets, TLC

\* ------------------------------------------------------------------ bounds
\* The longest stdout, stderr and stdin byte strings, the capacity of an
\* OS pipe (bytes buffered while nobody reads), and the number of calls of
\* the process-creation primitive one behaviour makes.
MaxOut == 2
MaxErr == 1
MaxIn == 2
PipeCap == 1
MaxSpawn == 2

\* The longest command string and the longest explicit argument sequence a
\* record is constructed with.
MaxArgLen == 7
MaxArgs == 2
NTasks == 2

\* ------------------------------------------------------------- byte data
\* Every byte is distinct, so a duplicated, lost or reordered byte shows.
OutData(n) == [i \in 1..n |-> i]
ErrData(n) == [i \in 1..n |-> 10 + i]
InData(n) == [i \in 1..n |-> 20 + i]

Take(s, k) == SubSeq(s, 1, k)
Drop(s, k) == SubSeq(s, k + 1, Len(s))

\* ------------------------------------------------------- construction inputs
Variants == {"blocking", "asyncio"}

\* A command string is a sequence of characters: a word character, a blank
\* and the single quote.
Chars == {"a", " ", "'"}
Strings(n) == UNION {[1..k -> Chars] : k \in 0..n}

\* A str and a path-like object with the same text are different values;
\* os.fspath() gives the text of either.
Str(s) == [kind |-> "str", val |-> s]
Path(s) == [kind |-> "path", val |-> s]
fspath(x) == x.val

\* The `arguments` a record is constructed with: a command string, one
\* path-like value, or a sequence of strings and path-like values.
Words == {<<"a">>, <<"a", " ", "a">>}
StrOrPath == {Str(w) : w \in Words} \cup {Path(w) : w \in Words}
ArgInputs ==
    {Str(s) : s \in Strings(MaxArgLen)}
    \cup {Path(w) : w \in Words}
    \cup {[kind |-> "seq", val |-> q] : q \in UNION {[1..k -> StrOrPath] : k \in 0..MaxArgs}}

\* Faulty variant: a split at blanks that does not know quotes.
RECURSIVE BlankSplit(_, _, _)
BlankSplit(s, cur, acc) ==
    IF s = <<>> THEN (IF cur = <<>> THEN acc ELSE Append(acc, Str(cur)))
    ELSE IF Head(s) = " "
    THEN BlankSplit(Tail(s), <<>>, IF cur = <<>> THEN acc ELSE Append(acc, Str(cur)))
    ELSE BlankSplit(Tail(s), Append(cur, Head(s)), acc)
str_split(s) == [err |-> "none", val |-> BlankSplit(s, <<>>, <<>>)]

\* shlex.split() in its POSIX mode, on the three characters: blanks outside
\* quotes end a token, a single quote opens or closes a quoted part, which
\* belongs to the token around it (an empty quoted part still makes a token),
\* and a quote left open is a ValueError ("No closing quotation").  The
\* result is the error raised, if any, and the list returned.
\* `tok` says whether a token has been begun, `inq` whether a quote is open.
RECURSIVE Lex(_, _, _, _, _)
Lex(s, cur, tok, inq, acc) ==
    IF s = <<>>
    THEN IF inq THEN [err |-> "ValueError", val |-> <<>>]
         ELSE [err |-> "none", val |-> IF tok THEN Append(acc, Str(cur)) ELSE acc]
    ELSE IF inq
    THEN IF Head(s) = "'"
         THEN Lex(Tail(s), cur, TRUE, FALSE, acc)
         ELSE Lex(Tail(s), Append(cur, Head(s)), TRUE, TRUE, acc)
    ELSE IF Head(s) = " "
    THEN Lex(Tail(s), <<>>, FALSE, FALSE, IF tok THEN Append(acc, Str(cur)) ELSE acc)
    ELSE IF Head(s) = "'"
    THEN Lex(Tail(s), cur, TRUE, TRUE, acc)
    ELSE Lex(Tail(s), Append(cur, Head(s)), TRUE, FALSE, acc)
shlex_split(s) == Lex(s, <<>>, FALSE, FALSE, <<>>)

\* AbstractProcess.__init__: a str is split, a path-like value becomes a list
\* of one element, any other value is taken as the sequence it is.
ArgList(a) ==
    IF a.kind = "str" THEN shlex_split(a.val)
    ELSE IF a.kind = "path" THEN [err |-> "none", val |-> <<a>>]
    ELSE [err |-> "none", val |-> a.val]

\* self._arguments: os.fspath() of every element, in order.
Resolved(a) == [i \in 1..Len(ArgList(a).val) |-> fspath(ArgList(a).val[i])]

\* The dispositions.  The code hands None, DEVNULL, a descriptor and a file
\* object to the process-creation primitive unchanged and the handle gets no
\* stream for any of them: "NOPIPE" stands for all four.  "BYTES" is an
\* in-memory buffer (stdin only), "STDOUT" the merge into stdout (stderr only).
StdinArgs == {"NOPIPE", "PIPE", "BYTES"}
StdoutArgs == {"NOPIPE", "PIPE"}
StderrArgs == {"NOPIPE", "PIPE", "STDOUT"}

\* What the program named by the argument vector does: it writes `out` to its
\* stdout and `err` to its stderr; a `cat` program also copies its stdin to its
\* stdout until end-of-input; `lives` says whether it exits when its work is
\* done ("exits"), runs until signalled ("forever") or also ignores the
\* termination request ("stubborn").
Programs ==
    { [out |-> OutData(MaxOut), err |-> ErrData(MaxErr), cat |-> FALSE, lives |-> "exits"] }
    \cup { [out |-> <<>>, err |-> <<>>, cat |-> TRUE, lives |-> "exits"] }
    \cup { [out |-> <<>>, err |-> <<>>, cat |-> FALSE, lives |-> l] :
        l \in {"forever", "stubborn"} }

\* The buffer_size the records are constructed with: 0, all operations
\* unbuffered.
Unbuffered == 0

\* The two signal numbers the model tells apart: terminate() sends SIGTERM,
\* which a program may ignore; kill() sends SIGKILL, which it cannot.
SIGKILL == 9
SIGTERM == 15
Signals == {SIGKILL, SIGTERM}

\* --------------------------------------------------------------- the state
VARIABLES
    arguments,   \* the `arguments` the constructor is called with
    _arguments,  \* self._arguments
    variant,     \* which Process class the record is an instance of
    _stdin,      \* self._stdin, self._stdout, self._stderr: the dispositions
    _stdout,
    _stderr,
    _buffer_size, \* self._buffer_size: the buffering hint given to the creation call
    program,     \* the behaviour of the program self._arguments names
    _process,    \* self._process: 0 is None, n > 0 the handle the n-th creation call returned
    spawns,      \* calls of the process-creation primitive so far
    returncode,  \* the handle's returncode: <<>> is None, <<c>> the exit status c
    stdinS,      \* the handle's stdin/stdout/stderr: "absent" (None), "open", "closed"
    stdoutS,
    stderrS,
    _output,     \* self._output, self._error
    _error,
    child,       \* the OS process: state, exit status, bytes still to write, stdin progress, signal
    inPipe,      \* bytes in flight in the three pipes
    outPipe,
    errPipe,
    feed,        \* bytes of the stdin buffer run() has still to write
    rawOut,      \* bytes the caller has read through the raw stdout/stderr handles
    rawErr,
    lostOut,     \* bytes discarded because a handle was closed with them unread
    lostErr,
    sentOut,     \* every byte the child has put into the stdout/stderr pipe
    sentErr,
    pc,          \* where the caller is: "idle", blocked inside a method, or "destroyed"
    scope,       \* "none", "inside" (after __enter__), "left" (after __exit__)
    lastErr,     \* the error the last call raised, "none" when it returned
    lastVal,     \* the bytes the last call returned, when it was output() or error()
    listed,      \* the list the caller got from the `arguments` accessor, as it is now
    tasks        \* the asyncio tasks that call run() concurrently: where each one is

config == <<arguments, _arguments, variant, _stdin, _stdout, _stderr, _buffer_size, program>>
handle == <<_process, spawns, returncode, stdinS, stdoutS, stderrS>>
accs == <<_output, _error>>
os == <<child, inPipe, outPipe, errPipe, sentOut, sentErr>>
hist == <<rawOut, rawErr, lostOut, lostErr>>
last == <<lastErr, lastVal>>
vars == <<config, handle, accs, os, feed, hist, pc, scope, last, listed, tasks>>

\* The caller holds no list of arguments yet.
NoList == [held |-> FALSE, own |-> FALSE, val |-> <<>>]

NoChild ==
    [state |-> "none", status |-> 0, outLeft |-> <<>>, errLeft |-> <<>>, eof |-> FALSE,
     got |-> 0]

\* AbstractProcess.__init__: both accumulators start empty and there is no
\* handle.
Fresh ==
    /\ _process = 0
    /\ spawns = 0
    /\ returncode = <<>>
    /\ stdinS = "absent" /\ stdoutS = "absent" /\ stderrS = "absent"
    /\ _output = <<>> /\ _error = <<>>
    /\ child = NoChild
    /\ inPipe = <<>> /\ outPipe = <<>> /\ errPipe = <<>>
    /\ feed = <<>>
    /\ rawOut = <<>> /\ rawErr = <<>> /\ lostOut = <<>> /\ lostErr = <<>>
    /\ sentOut = <<>> /\ sentErr = <<>>
    /\ scope = "none"
    /\ lastErr = "none" /\ lastVal = <<>>
    /\ listed = NoList

\* The record after construction: the argument vector is resolved and the
\* dispositions are stored as given.
Init ==
    /\ arguments = [kind |-> "seq", val |-> <<Str(<<"a">>), Path(<<"a">>)>>]
    /\ _arguments = Resolved(arguments)
    /\ variant \in Variants
    /\ _stdin \in StdinArgs
    /\ _stdout \in StdoutArgs
    /\ _stderr \in StderrArgs
    /\ _buffer_size = Unbuffered
    /\ program \in Programs
    /\ Fresh
    /\ pc = "idle"
    /\ tasks = <<>>

\* --------------------------------------------------------------- accessors
\* Faulty variant: an accessor that hands out self._process unchecked.
process_Unchecked == "none"

\* Process.process: ProcessNotRunError while self._process is None.
process == IF _process = 0 THEN "ProcessNotRunError" ELSE "none"

\* Faulty variant: a stream accessor that hands out None instead of raising.
StreamErr_Lenient(s) == process

\* Process.stdin / stdout / stderr: the handle's stream, ProcessNotRunError
\* before run(), ProcessInvalidStreamError when the handle has no such stream.
StreamErr(s) ==
    IF process # "none" THEN process
    ELSE IF s = "absent" THEN "ProcessInvalidStreamError"
    ELSE "none"

stdin == StreamErr(stdinS)
stdout == StreamErr(stdoutS)
stderr == StreamErr(stderrS)

\* `stream.closed` (blocking) and `stdin.is_closing()` (asyncio).  An asyncio
\* StreamReader has no closed state: stdoutS and stderrS stay "open" there.
Closed(s) == s = "closed"

\* How a call ends: it returns (`val` is what output() and error() return,
\* <<>> for every other call) or it raises `err`.
Returned(val) == lastErr' = "none" /\ lastVal' = val
Raised(err) == lastErr' = err /\ lastVal' = <<>>

\* ------------------------------------------------- the child and the OS
Running == child.state = "running"
Exited == child.state = "exited"

\* Faulty variant: a wait that never records the exit status.
Reap_Never == returncode

\* Popen.poll(): the exit status once the child has exited.
Reap == IF Exited THEN <<child.status>> ELSE returncode

\* The caller is blocked in a read-to-end-of-file of that pipe, so the pipe
\* is being emptied as the child fills it.
ReadingOut == pc = "output_read"
ReadingErr == pc = "error_read"

\* Where the child's stdout and stderr go: into a pipe of the record, or
\* elsewhere (the null device, a file, the parent's own stream).
OutGoesToPipe == _stdout = "PIPE"

\* Faulty variant: the merge of stderr into stdout is not carried out.
ErrGoesTo_NoMerge == IF _stderr = "PIPE" THEN "errPipe" ELSE "elsewhere"

ErrGoesTo ==
    IF _stderr = "PIPE" THEN "errPipe"
    ELSE IF _stderr = "STDOUT" /\ OutGoesToPipe THEN "outPipe"
    ELSE "elsewhere"

\* The child writes the next byte of its stdout.  A write into a full pipe
\* blocks; a write into a pipe whose read end the parent closed fails, and the
\* child either gives up (exit status 1) or carries on without that byte.
ChildWriteOut ==
    /\ Running /\ child.outLeft # <<>>
    /\ LET b == Head(child.outLeft)
           rest == [child EXCEPT !.outLeft = Tail(child.outLeft)]
       IN  IF ~OutGoesToPipe
           THEN child' = rest /\ UNCHANGED <<outPipe, sentOut>>
           ELSE IF Closed(stdoutS)
           THEN /\ child' \in {rest, [child EXCEPT !.state = "exited", !.status = 1,
                                                   !.outLeft = <<>>, !.errLeft = <<>>]}
                /\ UNCHANGED <<outPipe, sentOut>>
           ELSE /\ ReadingOut \/ Len(outPipe) < PipeCap
                /\ child' = rest
                /\ outPipe' = Append(outPipe, b)
                /\ sentOut' = Append(sentOut, b)
    /\ UNCHANGED <<config, listed, tasks, handle, accs, inPipe, errPipe, sentErr, feed, hist, pc, scope, last>>

\* The child writes the next byte of its stderr: into the stderr pipe, into the
\* stdout pipe when stderr was merged into a piped stdout, or elsewhere.
ChildWriteErr ==
    /\ Running /\ child.errLeft # <<>>
    /\ LET b == Head(child.errLeft)
           rest == [child EXCEPT !.errLeft = Tail(child.errLeft)]
           gone == [child EXCEPT !.state = "exited", !.status = 1,
                                 !.outLeft = <<>>, !.errLeft = <<>>]
       IN  CASE ErrGoesTo = "elsewhere" ->
                  child' = rest /\ UNCHANGED <<outPipe, sentOut, errPipe, sentErr>>
             [] ErrGoesTo = "errPipe" /\ Closed(stderrS) ->
                  child' \in {rest, gone} /\ UNCHANGED <<outPipe, sentOut, errPipe, sentErr>>
             [] ErrGoesTo = "errPipe" /\ ~Closed(stderrS) ->
                  /\ ReadingErr \/ Len(errPipe) < PipeCap
                  /\ child' = rest
                  /\ errPipe' = Append(errPipe, b)
                  /\ sentErr' = Append(sentErr, b)
                  /\ UNCHANGED <<outPipe, sentOut>>
             [] ErrGoesTo = "outPipe" /\ Closed(stdoutS) ->
                  child' \in {rest, gone} /\ UNCHANGED <<outPipe, sentOut, errPipe, sentErr>>
             [] ErrGoesTo = "outPipe" /\ ~Closed(stdoutS) ->
                  /\ ReadingOut \/ Len(outPipe) < PipeCap
                  /\ child' = rest
                  /\ outPipe' = Append(outPipe, b)
                  /\ sentOut' = Append(sentOut, b)
                  /\ UNCHANGED <<errPipe, sentErr>>
    /\ UNCHANGED <<config, listed, tasks, handle, accs, inPipe, feed, hist, pc, scope, last>>

\* A cat-like child reads its stdin once what it read before is written out:
\* the next byte of the pipe, or end-of-input when the pipe is empty and its
\* write end is closed.  A stdin that is not a pipe is read as empty.
ChildRead ==
    /\ Running /\ program.cat /\ ~child.eof /\ child.outLeft = <<>>
    /\ IF stdinS = "absent"
       THEN child' = [child EXCEPT !.eof = TRUE] /\ UNCHANGED inPipe
       ELSE IF inPipe # <<>>
       THEN /\ child' = [child EXCEPT !.outLeft = <<Head(inPipe)>>]
            /\ inPipe' = Tail(inPipe)
       ELSE /\ Closed(stdinS) /\ feed = <<>>
            /\ child' = [child EXCEPT !.eof = TRUE]
            /\ UNCHANGED inPipe
    /\ UNCHANGED <<config, listed, tasks, handle, accs, outPipe, errPipe, sentOut, sentErr, feed, hist,
                   pc, scope, last>>

\* The child exits by itself, with status 0, when it has written everything
\* (and a cat-like child has seen end-of-input).
ChildExit ==
    /\ Running /\ program.lives = "exits"
    /\ child.outLeft = <<>> /\ child.errLeft = <<>>
    /\ program.cat => child.eof
    /\ child' = [child EXCEPT !.state = "exited", !.status = 0]
    /\ UNCHANGED <<config, listed, tasks, handle, accs, inPipe, outPipe, errPipe, sentOut, sentErr, feed,
                   hist, pc, scope, last>>

\* Faulty variants: a signal that never reaches the child, and a child that
\* no signal leaves alive.
Deliver_Ignored(sig) == child
Deliver_Always(sig) ==
    IF Running
    THEN [child EXCEPT !.state = "exited", !.status = 0 - sig, !.got = sig,
                       !.outLeft = <<>>, !.errLeft = <<>>]
    ELSE child

\* The child after signal `sig` is sent to it: it dies with status -sig unless
\* it has already exited or ignores the termination request.  `got` is the
\* signal a running child received last.
Deliver(sig) ==
    IF Running
    THEN IF sig = SIGKILL \/ program.lives # "stubborn"
         THEN [child EXCEPT !.state = "exited", !.status = 0 - sig, !.got = sig,
                            !.outLeft = <<>>, !.errLeft = <<>>]
         ELSE [child EXCEPT !.got = sig]
    ELSE child

\* asyncio's child watcher: the event loop notices the exit and sets the
\* handle's returncode.
LoopReap ==
    /\ variant = "asyncio" /\ _process # 0
    /\ Exited /\ returncode = <<>>
    /\ returncode' = <<child.status>>
    /\ UNCHANGED <<config, listed, tasks, _process, spawns, stdinS, stdoutS, stderrS, accs, os, feed, hist,
                   pc, scope, last>>

\* ------------------------------------------------------ the caller's calls
Idle == pc = "idle"

\* Faulty variant: a byte buffer is not given a pipe.
StdinStream_OnlyPipe == IF _stdin = "PIPE" THEN "open" ELSE "absent"

\* The handle's streams as the process-creation primitive builds them: a
\* stream object for a PIPE disposition (a byte buffer is fed through a pipe),
\* None for every other disposition.
StdinStream == IF _stdin \in {"PIPE", "BYTES"} THEN "open" ELSE "absent"
StdoutStream == IF _stdout = "PIPE" THEN "open" ELSE "absent"
StderrStream == IF _stderr = "PIPE" THEN "open" ELSE "absent"

\* Faulty variants: a run() without the check, and a run() that refuses a
\* record on which creation was attempted before, failed or not.
AlreadyRun_Never == FALSE
AlreadyRun_SingleUse == spawns # 0

\* run(): the first check of run().
AlreadyRun == _process # 0

\* Faulty variant: a run() that stores a handle even when creation failed.
Created_Always(ok) == spawns + 1

\* run(): what self._process holds after the try block, the new handle when
\* the process-creation primitive returned one and the old value (None) when it
\* raised; and the error run() raises in the second case.
Created(ok) == IF ok THEN spawns + 1 ELSE _process
SpawnErr(ok) == IF ok THEN "none" ELSE "ProcessError"

\* run() and __enter__()/__aenter__() (scoped = TRUE).  `ok` is the outcome of
\* the process-creation primitive.  With a byte buffer as stdin the call goes on
\* in FeedWrite and FeedDone.
Run(ok, scoped) ==
    /\ Idle
    /\ scoped => scope # "inside"
    /\ IF AlreadyRun
       THEN /\ Raised("ProcessAlreadyRunError")
            /\ UNCHANGED <<handle, os, feed, pc, scope>>
       ELSE /\ spawns < MaxSpawn
            /\ spawns' = spawns + 1
            /\ _process' = Created(ok)
            /\ IF SpawnErr(ok) # "none"
               THEN /\ Raised(SpawnErr(ok))
                    /\ UNCHANGED <<returncode, stdinS, stdoutS, stderrS, os, feed, pc, scope>>
               ELSE /\ returncode' = <<>>
                    /\ stdinS' = StdinStream
                    /\ stdoutS' = StdoutStream
                    /\ stderrS' = StderrStream
                    /\ child' = [state |-> "running", status |-> 0, outLeft |-> program.out,
                                 errLeft |-> program.err, eof |-> FALSE, got |-> 0]
                    /\ UNCHANGED <<inPipe, outPipe, errPipe, sentOut, sentErr>>
                    /\ IF _stdin = "BYTES"
                       THEN /\ feed' = InData(MaxIn)
                            /\ pc' = IF scoped THEN "enter_feed" ELSE "run_feed"
                            /\ UNCHANGED <<scope, last>>
                       ELSE /\ Returned(<<>>)
                            /\ scope' = IF scoped THEN "inside" ELSE scope
                            /\ UNCHANGED <<feed, pc>>
    /\ UNCHANGED <<config, listed, tasks, accs, hist>>

Feeding == pc \in {"run_feed", "enter_feed"}

\* Faulty variant: a feed that never waits for room in the pipe.
FeedWrite_NoWait ==
    /\ Feeding /\ feed # <<>>
    /\ inPipe' = Append(inPipe, Head(feed))
    /\ feed' = Tail(feed)
    /\ UNCHANGED <<config, listed, tasks, handle, accs, child, outPipe, errPipe, sentOut, sentErr, hist, pc,
                   scope, last>>

\* run() writes the stdin buffer: the next byte goes into the pipe when there
\* is room; when the child has exited, the write (or the flush in close(), or
\* drain()) fails with BrokenPipeError, which run() does not catch; what was
\* not written stays unwritten.
FeedWrite ==
    /\ Feeding /\ feed # <<>>
    /\ IF Exited
       THEN /\ Raised("BrokenPipeError")
            /\ pc' = "idle"
            /\ UNCHANGED feed
            /\ stdinS' \in (IF variant = "asyncio" THEN {"closed"} ELSE {"open", "closed"})
            /\ UNCHANGED inPipe
       ELSE /\ Len(inPipe) < PipeCap
            /\ inPipe' = Append(inPipe, Head(feed))
            /\ feed' = Tail(feed)
            /\ UNCHANGED <<stdinS, pc, last>>
    /\ UNCHANGED <<config, listed, tasks, _process, spawns, returncode, stdoutS, stderrS, accs, child,
                   outPipe, errPipe, sentOut, sentErr, hist, scope>>

\* run() has written the whole buffer: it closes stdin and returns.
FeedDone ==
    /\ Feeding /\ feed = <<>>
    /\ stdinS' = "closed"
    /\ pc' = "idle"
    /\ scope' = IF pc = "enter_feed" THEN "inside" ELSE scope
    /\ Returned(<<>>)
    /\ UNCHANGED <<config, listed, tasks, _process, spawns, returncode, stdoutS, stderrS, accs, os, feed,
                   hist>>

\* Faulty variant: a join that kills the child when the deadline passes.
OnTimeout_Kill == Deliver(SIGKILL)

\* join(timeout): what the except clause does to the child when the
\* deadline passes, which is nothing; it only raises ProcessTimeoutError.
OnTimeout == child

\* join(timeout).  With a timeout the call returns when the child has exited
\* by the deadline and raises ProcessTimeoutError otherwise; without one it
\* waits (JoinDone).
Join(timeout) ==
    /\ Idle
    /\ IF process # "none"
       THEN Raised(process) /\ UNCHANGED <<returncode, pc, child>>
       ELSE IF ~timeout
       THEN pc' = "join" /\ UNCHANGED <<returncode, last, child>>
       ELSE IF Exited
       THEN returncode' = Reap /\ Returned(<<>>) /\ UNCHANGED <<pc, child>>
       ELSE Raised("ProcessTimeoutError") /\ child' = OnTimeout /\ UNCHANGED <<returncode, pc>>
    /\ UNCHANGED <<config, listed, tasks, _process, spawns, stdinS, stdoutS, stderrS, accs, inPipe, outPipe,
                   errPipe, sentOut, sentErr, feed, hist, scope>>

JoinDone ==
    /\ pc = "join" /\ Exited
    /\ returncode' = Reap
    /\ pc' = "idle"
    /\ Returned(<<>>)
    /\ UNCHANGED <<config, listed, tasks, _process, spawns, stdinS, stdoutS, stderrS, accs, os, feed, hist,
                   scope>>

\* Faulty variants: `=` in place of `+=`, and data appended twice.
Accumulate_Replace(acc, data) == data
Accumulate_Twice(acc, data) == acc \o data \o data

\* Faulty variant: the data appended back to front.
Reverse(s) == [i \in 1..Len(s) |-> s[Len(s) + 1 - i]]
Accumulate_Reversed(acc, data) == acc \o Reverse(data)

\* `self._output += data` and `self._error += data`.
Accumulate(acc, data) == acc \o data

\* Faulty variant: an output() without the closed check, whose read of a
\* closed file raises ValueError.
OutputRead_Unchecked ==
    IF stdout # "none"
    THEN Raised(stdout) /\ pc' = "idle" /\ UNCHANGED <<_output, outPipe>>
    ELSE IF Closed(stdoutS)
    THEN Raised("ValueError") /\ pc' = "idle" /\ UNCHANGED <<_output, outPipe>>
    ELSE IF Exited
    THEN /\ _output' = _output \o outPipe
         /\ outPipe' = <<>>
         /\ Returned(_output')
         /\ pc' = "idle"
    ELSE pc' = "output_read" /\ UNCHANGED <<_output, outPipe, last>>

\* Faulty variant: a read that takes what is in the pipe and returns.
OutputRead_Available ==
    IF stdout # "none"
    THEN Raised(stdout) /\ pc' = "idle" /\ UNCHANGED <<_output, outPipe>>
    ELSE /\ _output' = _output \o outPipe
         /\ outPipe' = <<>>
         /\ Returned(_output')
         /\ pc' = "idle"

\* The part of output() after the join: the stdout accessor, the closed
\* check of the blocking variant, then the read to end-of-file, which waits
\* (pc "output_read") unless the child has exited.
OutputRead ==
    IF stdout # "none"
    THEN Raised(stdout) /\ pc' = "idle" /\ UNCHANGED <<_output, outPipe>>
    ELSE IF variant = "blocking" /\ Closed(stdoutS)
    THEN Returned(_output) /\ pc' = "idle" /\ UNCHANGED <<_output, outPipe>>
    ELSE IF Exited
    THEN /\ _output' = Accumulate(_output, outPipe)
         /\ outPipe' = <<>>
         /\ Returned(_output')
         /\ pc' = "idle"
    ELSE pc' = "output_read" /\ UNCHANGED <<_output, outPipe, last>>

\* Faulty variant: an output() that looks at the stream before it joins.
Output_CheckFirst(join) ==
    /\ Idle
    /\ IF join /\ stdout = "none"
       THEN pc' = "output_join" /\ UNCHANGED <<last, _output, outPipe>>
       ELSE OutputRead
    /\ UNCHANGED <<config, listed, tasks, handle, _error, child, inPipe, errPipe, sentOut, sentErr,
                   feed, hist, scope>>

\* output(join)
Output(join) ==
    /\ Idle
    /\ IF join
       THEN IF process # "none"
            THEN Raised(process) /\ UNCHANGED <<pc, _output, outPipe>>
            ELSE pc' = "output_join" /\ UNCHANGED <<last, _output, outPipe>>
       ELSE OutputRead
    /\ UNCHANGED <<config, listed, tasks, handle, _error, child, inPipe, errPipe, sentOut, sentErr, feed,
                   hist, scope>>

\* output(join=True): the join has returned.
OutputJoined ==
    /\ pc = "output_join" /\ Exited
    /\ returncode' = Reap
    /\ OutputRead
    /\ UNCHANGED <<config, listed, tasks, _process, spawns, stdinS, stdoutS, stderrS, _error, child, inPipe,
                   errPipe, sentOut, sentErr, feed, hist, scope>>

\* output(): the read has reached end-of-file.
OutputReadDone ==
    /\ pc = "output_read" /\ Exited
    /\ OutputRead
    /\ UNCHANGED <<config, listed, tasks, handle, _error, child, inPipe, errPipe, sentOut, sentErr, feed,
                   hist, scope>>

\* The part of error() after the join.
ErrorRead ==
    IF stderr # "none"
    THEN Raised(stderr) /\ pc' = "idle" /\ UNCHANGED <<_error, errPipe>>
    ELSE IF variant = "blocking" /\ Closed(stderrS)
    THEN Returned(_error) /\ pc' = "idle" /\ UNCHANGED <<_error, errPipe>>
    ELSE IF Exited
    THEN /\ _error' = Accumulate(_error, errPipe)
         /\ errPipe' = <<>>
         /\ Returned(_error')
         /\ pc' = "idle"
    ELSE pc' = "error_read" /\ UNCHANGED <<_error, errPipe, last>>

\* error(join)
Error(join) ==
    /\ Idle
    /\ IF join
       THEN IF process # "none"
            THEN Raised(process) /\ UNCHANGED <<pc, _error, errPipe>>
            ELSE pc' = "error_join" /\ UNCHANGED <<last, _error, errPipe>>
       ELSE ErrorRead
    /\ UNCHANGED <<config, listed, tasks, handle, _output, child, inPipe, outPipe, sentOut, sentErr, feed,
                   hist, scope>>

ErrorJoined ==
    /\ pc = "error_join" /\ Exited
    /\ returncode' = Reap
    /\ ErrorRead
    /\ UNCHANGED <<config, listed, tasks, _process, spawns, stdinS, stdoutS, stderrS, _output, child, inPipe,
                   outPipe, sentOut, sentErr, feed, hist, scope>>

ErrorReadDone ==
    /\ pc = "error_read" /\ Exited
    /\ ErrorRead
    /\ UNCHANGED <<config, listed, tasks, handle, _output, child, inPipe, outPipe, sentOut, sentErr, feed,
                   hist, scope>>


\* Faulty variant: an asyncio transport that accepts a signal after the exit.
SignalErr_Accepts == process

\* asyncio's transport refuses a signal once the exit has been processed.
SignalErr ==
    IF process # "none" THEN process
    ELSE IF variant = "asyncio" /\ returncode # <<>> THEN "ProcessLookupError"
    ELSE "none"

\* Faulty variant: a signal call that also waits for the child to exit.
SendSignal_Waits(sig) ==
    /\ Idle /\ process = "none"
    /\ child' = Deliver(sig)
    /\ pc' = "join"
    /\ UNCHANGED <<config, listed, tasks, _process, spawns, returncode, stdinS, stdoutS, stderrS, accs,
                   inPipe, outPipe, errPipe, sentOut, sentErr, feed, hist, scope, last>>

\* signal(sig), terminate() (sig = SIGTERM) and kill() (sig = SIGKILL): they
\* forward to the handle and return.  Popen.send_signal() polls first, which
\* records the exit status of a child that has exited.
SendSignal(sig) ==
    /\ Idle
    /\ IF SignalErr # "none"
       THEN Raised(SignalErr) /\ UNCHANGED <<returncode, child>>
       ELSE /\ Returned(<<>>)
            /\ child' = Deliver(sig)
            /\ returncode' = IF variant = "blocking" THEN Reap ELSE returncode
    /\ UNCHANGED <<config, listed, tasks, _process, spawns, stdinS, stdoutS, stderrS, accs, inPipe, outPipe,
                   errPipe, sentOut, sentErr, feed, hist, pc, scope>>

Signal(sig) == SendSignal(sig)
Terminate == SendSignal(SIGTERM)
Kill == SendSignal(SIGKILL)

\* Faulty variant: a cleanup that leaves stdin open.
CloseStdin_Keep == stdinS

\* The first block of close(), __exit__() and __del__(): close stdin when it
\* is a pipe that is still open; ProcessInvalidStreamError is suppressed.
CloseStdin == IF stdinS = "open" THEN "closed" ELSE stdinS

\* close(): stdin, terminate(), then the join (CloseJoined goes on).  The
\* stdin accessor raises ProcessNotRunError on a record without a handle and
\* terminate() may raise; neither is caught.
Close ==
    /\ Idle
    /\ IF process # "none"
       THEN Raised(process) /\ UNCHANGED <<stdinS, returncode, child, pc>>
       ELSE /\ stdinS' = CloseStdin
            /\ IF SignalErr # "none"
               THEN Raised(SignalErr) /\ UNCHANGED <<returncode, child, pc>>
               ELSE /\ child' = Deliver(SIGTERM)
                    /\ returncode' = IF variant = "blocking" THEN Reap ELSE returncode
                    /\ pc' = "close_join"
                    /\ UNCHANGED last
    /\ UNCHANGED <<config, listed, tasks, _process, spawns, stdoutS, stderrS, accs, inPipe, outPipe, errPipe,
                   sentOut, sentErr, feed, hist, scope>>

\* Faulty variant: an end of close() and __exit__() that reads nothing.
DrainBoth_Skip == UNCHANGED <<_output, outPipe, stdoutS, _error, errPipe, stderrS>>

\* The two drain blocks that end close() and a normal __exit__(): each stream
\* that is a pipe (and, in the blocking variant, not closed) is read to its
\* end into its accumulator; the blocking variant then closes it.
DrainBoth ==
    /\ IF stdoutS = "open"
       THEN /\ _output' = Accumulate(_output, outPipe)
            /\ outPipe' = <<>>
            /\ stdoutS' = IF variant = "blocking" THEN "closed" ELSE stdoutS
       ELSE UNCHANGED <<_output, outPipe, stdoutS>>
    /\ IF stderrS = "open"
       THEN /\ _error' = Accumulate(_error, errPipe)
            /\ errPipe' = <<>>
            /\ stderrS' = IF variant = "blocking" THEN "closed" ELSE stderrS
       ELSE UNCHANGED <<_error, errPipe, stderrS>>

\* close(): the join has returned; drain and return.
CloseJoined ==
    /\ pc = "close_join" /\ Exited
    /\ returncode' = Reap
    /\ DrainBoth
    /\ pc' = "idle"
    /\ Returned(<<>>)
    /\ UNCHANGED <<config, listed, tasks, _process, spawns, stdinS, child, inPipe, sentOut, sentErr, feed,
                   hist, scope>>

\* Faulty variant: no variant closes the handles when an exception leaves.
ExitCloses_Never == FALSE

\* __exit__() with an exception: the blocking variant still calls
\* stdout.close() and stderr.close(); the asyncio variant has no such call.
ExitCloses == variant = "blocking"

\* Faulty variant: a scope exit that asks the child to terminate, as close()
\* does.
Exit_Terminates(exc) ==
    /\ Idle /\ scope = "inside"
    /\ stdinS' = CloseStdin
    /\ child' = Deliver(SIGTERM)
    /\ IF ~exc
       THEN /\ pc' = "exit_join"
            /\ UNCHANGED <<stdoutS, stderrS, outPipe, errPipe, lostOut, lostErr, scope, last>>
       ELSE /\ scope' = "raised"
            /\ Returned(<<>>)
            /\ IF ExitCloses /\ stdoutS = "open"
               THEN stdoutS' = "closed" /\ lostOut' = lostOut \o outPipe /\ outPipe' = <<>>
               ELSE UNCHANGED <<stdoutS, lostOut, outPipe>>
            /\ IF ExitCloses /\ stderrS = "open"
               THEN stderrS' = "closed" /\ lostErr' = lostErr \o errPipe /\ errPipe' = <<>>
               ELSE UNCHANGED <<stderrS, lostErr, errPipe>>
            /\ UNCHANGED pc
    /\ UNCHANGED <<config, listed, tasks, _process, spawns, returncode, accs, inPipe, sentOut, sentErr,
                   feed, rawOut, rawErr>>

\* __exit__() / __aexit__().  `exc` says whether an exception is leaving the
\* scope.  Without one the call joins (ExitJoined goes on).  With one there is
\* no join and no read: the blocking variant closes the stdout and stderr
\* handles, which discards what is unread; the asyncio variant leaves them.
Exit(exc) ==
    /\ Idle /\ scope = "inside"
    /\ stdinS' = CloseStdin
    /\ IF ~exc
       THEN /\ pc' = "exit_join"
            /\ UNCHANGED <<stdoutS, stderrS, outPipe, errPipe, lostOut, lostErr, scope, last>>
       ELSE /\ scope' = "raised"
            /\ Returned(<<>>)
            /\ IF ExitCloses /\ stdoutS = "open"
               THEN stdoutS' = "closed" /\ lostOut' = lostOut \o outPipe /\ outPipe' = <<>>
               ELSE UNCHANGED <<stdoutS, lostOut, outPipe>>
            /\ IF ExitCloses /\ stderrS = "open"
               THEN stderrS' = "closed" /\ lostErr' = lostErr \o errPipe /\ errPipe' = <<>>
               ELSE UNCHANGED <<stderrS, lostErr, errPipe>>
            /\ UNCHANGED pc
    /\ UNCHANGED <<config, listed, tasks, _process, spawns, returncode, accs, child, inPipe, sentOut, sentErr,
                   feed, rawOut, rawErr>>

\* __exit__() without an exception: the join has returned; drain and return.
ExitJoined ==
    /\ pc = "exit_join" /\ Exited
    /\ returncode' = Reap
    /\ DrainBoth
    /\ pc' = "idle"
    /\ scope' = "left"
    /\ Returned(<<>>)
    /\ UNCHANGED <<config, listed, tasks, _process, spawns, stdinS, child, inPipe, sentOut, sentErr, feed,
                   hist>>

\* The caller evaluates process.stdin, process.stdout or process.stderr.
Access(name) ==
    /\ Idle
    /\ Raised(CASE name = "stdin" -> stdin
                      [] name = "stdout" -> stdout
                      [] name = "stderr" -> stderr)
    /\ UNCHANGED <<config, listed, tasks, handle, accs, os, feed, hist, pc, scope>>

\* The caller reads k bytes that are in the pipe through the raw stdout handle.
RawReadOut(k) ==
    /\ Idle /\ stdout = "none" /\ stdoutS = "open"
    /\ k \in 1..Len(outPipe)
    /\ rawOut' = rawOut \o Take(outPipe, k)
    /\ outPipe' = Drop(outPipe, k)
    /\ Returned(<<>>)
    /\ UNCHANGED <<config, listed, tasks, handle, accs, child, inPipe, errPipe, sentOut, sentErr, feed,
                   rawErr, lostOut, lostErr, pc, scope>>

\* The same through the raw stderr handle.
RawReadErr(k) ==
    /\ Idle /\ stderr = "none" /\ stderrS = "open"
    /\ k \in 1..Len(errPipe)
    /\ rawErr' = rawErr \o Take(errPipe, k)
    /\ errPipe' = Drop(errPipe, k)
    /\ Returned(<<>>)
    /\ UNCHANGED <<config, listed, tasks, handle, accs, child, inPipe, outPipe, sentOut, sentErr, feed,
                   rawOut, lostOut, lostErr, pc, scope>>

\* Faulty variant: a `running` that is true whatever the child did.
running_Always == TRUE

\* The `running` property: the blocking variant polls, which records the exit
\* status; the asyncio variant reads returncode.
running == IF variant = "blocking" THEN Reap = <<>> ELSE returncode = <<>>

\* Faulty variant: an exit_code that reports a status before the child exits.
exit_code_Early == <<child.status>>

\* The `exit_code` property.
exit_code == returncode

\* Faulty variant: an accessor that hands out the record's own list.
ArgumentsProp_Own == [held |-> TRUE, own |-> TRUE, val |-> _arguments]

\* The `arguments` accessor: list(self._arguments), a new list with the
\* elements of the record's list.
ArgumentsProp == [held |-> TRUE, own |-> FALSE, val |-> _arguments]

\* The caller takes the list the accessor returns and empties it
\* (process.arguments.clear()).  The record's list changes with it only when
\* the two are one object.
ClearListed ==
    /\ Idle
    /\ listed' = [ArgumentsProp EXCEPT !.val = <<>>]
    /\ _arguments' = IF ArgumentsProp.own THEN <<>> ELSE _arguments
    /\ Returned(<<>>)
    /\ UNCHANGED <<arguments, variant, _stdin, _stdout, _stderr, _buffer_size, program, handle,
                   accs, os, feed, hist, pc, scope, tasks>>

\* The caller evaluates process.running.
RunningProp ==
    /\ Idle
    /\ IF process # "none"
       THEN Raised(process) /\ UNCHANGED returncode
       ELSE /\ Returned(<<>>)
            /\ returncode' = IF variant = "blocking" THEN Reap ELSE returncode
    /\ UNCHANGED <<config, listed, tasks, _process, spawns, stdinS, stdoutS, stderrS, accs, os, feed, hist,
                   pc, scope>>

\* Faulty variant: a destructor that leaves the stdout and stderr handles open.
DelCloseUnread_Keep == UNCHANGED <<stdoutS, lostOut, outPipe, stderrS, lostErr, errPipe>>

\* The end of the blocking __del__(): stdout and stderr are closed without
\* being read, which discards what is unread.  The asyncio __del__() has no
\* such step.
DelCloseUnread ==
    /\ IF variant = "blocking" /\ stdoutS = "open"
       THEN stdoutS' = "closed" /\ lostOut' = lostOut \o outPipe /\ outPipe' = <<>>
       ELSE UNCHANGED <<stdoutS, lostOut, outPipe>>
    /\ IF variant = "blocking" /\ stderrS = "open"
       THEN stderrS' = "closed" /\ lostErr' = lostErr \o errPipe /\ errPipe' = <<>>
       ELSE UNCHANGED <<stderrS, lostErr, errPipe>>

\* __del__(): the record is destroyed, which happens between calls and not
\* while a `with` statement holds it.  Without a handle it returns at once.
\* Otherwise it closes stdin and, if `running`, calls terminate(); the blocking
\* variant then joins (DestroyJoined goes on) and closes stdout and stderr.
Destroy ==
    /\ Idle /\ scope # "inside"
    /\ IF _process = 0
       THEN /\ pc' = "destroyed"
            /\ Returned(<<>>)
            /\ UNCHANGED <<handle, os, hist>>
       ELSE /\ stdinS' = CloseStdin
            /\ IF running
               THEN IF SignalErr # "none"
                    THEN /\ Raised(SignalErr)
                         /\ pc' = "destroyed"
                         /\ UNCHANGED <<returncode, stdoutS, stderrS, child, outPipe, errPipe,
                                        lostOut, lostErr>>
                    ELSE /\ child' = Deliver(SIGTERM)
                         /\ returncode' = returncode
                         /\ IF variant = "blocking"
                            THEN pc' = "del_join" /\ UNCHANGED last
                            ELSE pc' = "destroyed" /\ Returned(<<>>)
                         /\ UNCHANGED <<stdoutS, stderrS, outPipe, errPipe, lostOut, lostErr>>
               ELSE /\ returncode' = IF variant = "blocking" THEN Reap ELSE returncode
                    /\ DelCloseUnread
                    /\ pc' = "destroyed"
                    /\ Returned(<<>>)
                    /\ UNCHANGED child
            /\ UNCHANGED <<_process, spawns, inPipe, sentOut, sentErr, rawOut, rawErr>>
    /\ UNCHANGED <<config, listed, tasks, accs, feed, scope>>

\* The blocking __del__(): the join has returned; close stdout and stderr.
DestroyJoined ==
    /\ pc = "del_join" /\ Exited
    /\ returncode' = Reap
    /\ DelCloseUnread
    /\ pc' = "destroyed"
    /\ Returned(<<>>)
    /\ UNCHANGED <<config, listed, tasks, _process, spawns, stdinS, accs, child, inPipe, sentOut, sentErr,
                   feed, rawOut, rawErr, scope>>

\* ------------------------------------------------------- the specification
Next ==
    \/ \E ok \in BOOLEAN, scoped \in BOOLEAN : Run(ok, scoped)
    \/ FeedWrite
    \/ FeedDone
    \/ \E timeout \in BOOLEAN : Join(timeout)
    \/ JoinDone
    \/ \E join \in BOOLEAN : Output(join)
    \/ OutputJoined
    \/ OutputReadDone
    \/ \E join \in BOOLEAN : Error(join)
    \/ ErrorJoined
    \/ ErrorReadDone
    \/ \E sig \in Signals : Signal(sig)
    \/ Terminate
    \/ Kill
    \/ Close
    \/ CloseJoined
    \/ \E exc \in BOOLEAN : Exit(exc)
    \/ ExitJoined
    \/ \E name \in {"stdin", "stdout", "stderr"} : Access(name)
    \/ \E k \in 1..(MaxOut + MaxErr + MaxIn) : RawReadOut(k)
    \/ \E k \in 1..MaxErr : RawReadErr(k)
    \/ RunningProp
    \/ ClearListed
    \/ Destroy
    \/ DestroyJoined
    \/ ChildWriteOut
    \/ ChildWriteErr
    \/ ChildRead
    \/ ChildExit
    \/ LoopReap

Spec == Init /\ [][Next]_vars

\* The constructor seen as a step: the record before __init__ has run, with
\* the `arguments` of the call, and the step that resolves them.  A quote
\* left open in a command string makes the constructor raise.
ArgInit ==
    /\ arguments \in ArgInputs
    /\ _arguments = <<>>
    /\ variant \in Variants
    /\ _stdin = "NOPIPE" /\ _stdout = "PIPE" /\ _stderr = "PIPE"
    /\ _buffer_size = Unbuffered
    /\ program \in Programs
    /\ Fresh
    /\ pc = "new"
    /\ tasks = <<>>

Construct ==
    /\ pc = "new"
    /\ IF ArgList(arguments).err # "none"
       THEN /\ pc' = "failed"
            /\ Raised(ArgList(arguments).err)
            /\ UNCHANGED _arguments
       ELSE /\ pc' = "idle"
            /\ Returned(<<>>)
            /\ _arguments' = Resolved(arguments)
    /\ UNCHANGED <<arguments, variant, _stdin, _stdout, _stderr, _buffer_size, program, handle,
                   accs, os, feed, hist, scope, listed, tasks>>

ArgNext == Construct

ArgSpec == ArgInit /\ [][ArgNext]_vars

\* Two asyncio tasks call run() on one fresh record.  A task runs without
\* interruption from one await to the next: the check of run() and the call
\* of the process-creation primitive are one step, which ends suspended in
\* `await create_subprocess_exec(...)`; the assignment to self._process is
\* made when the task is resumed with the handle.  The records have no byte
\* buffer as stdin, so run() returns after the assignment.
Tasks == 1..NTasks
Ready == [at |-> "ready", err |-> "none", got |-> 0]

TaskInit ==
    /\ arguments = [kind |-> "seq", val |-> <<Str(<<"a">>), Path(<<"a">>)>>]
    /\ _arguments = Resolved(arguments)
    /\ variant = "asyncio"
    /\ _stdin \in StdinArgs \ {"BYTES"}
    /\ _stdout \in StdoutArgs
    /\ _stderr \in StderrArgs
    /\ _buffer_size = Unbuffered
    /\ program \in Programs
    /\ Fresh
    /\ pc = "idle"
    /\ tasks = [t \in Tasks |-> Ready]

\* run() from its first line to the suspension inside the creation call.
RunCheck(t) ==
    /\ tasks[t].at = "ready"
    /\ tasks' = [tasks EXCEPT ![t] =
                    IF AlreadyRun
                    THEN [at |-> "done", err |-> "ProcessAlreadyRunError", got |-> 0]
                    ELSE [at |-> "creating", err |-> "none", got |-> 0]]
    /\ UNCHANGED <<config, handle, accs, os, feed, hist, pc, scope, last, listed>>

\* run() resumed: the creation call returns a handle, which is stored, or
\* raises, and run() raises ProcessError.  `got` is the handle the task's
\* call has created.
RunCreated(t, ok) ==
    /\ tasks[t].at = "creating"
    /\ spawns' = spawns + 1
    /\ _process' = Created(ok)
    /\ tasks' = [tasks EXCEPT ![t] =
                    [at |-> "done", err |-> SpawnErr(ok), got |-> IF ok THEN spawns + 1 ELSE 0]]
    /\ IF ok
       THEN /\ returncode' = <<>>
            /\ stdinS' = StdinStream
            /\ stdoutS' = StdoutStream
            /\ stderrS' = StderrStream
            /\ child' = [state |-> "running", status |-> 0, outLeft |-> program.out,
                         errLeft |-> program.err, eof |-> FALSE, got |-> 0]
            /\ UNCHANGED <<inPipe, outPipe, errPipe, sentOut, sentErr>>
       ELSE UNCHANGED <<returncode, stdinS, stdoutS, stderrS, os>>
    /\ UNCHANGED <<config, accs, feed, hist, pc, scope, last, listed>>

TaskNext ==
    \/ \E t \in Tasks : RunCheck(t)
    \/ \E t \in Tasks, ok \in BOOLEAN : RunCreated(t, ok)

TaskSpec == TaskInit /\ [][TaskNext]_vars

\* A wait that has become possible is completed: Popen.wait() and
\* asyncio's Process.wait() return once the child has exited.  The operating
\* system runs the child: a child that can read its stdin reads it, and a
\* child that has done its work exits.
Fairness ==
    /\ WF_vars(JoinDone) /\ WF_vars(ExitJoined) /\ WF_vars(CloseJoined)
    /\ WF_vars(ChildRead) /\ WF_vars(ChildExit)

FairSpec == Spec /\ Fairness

\* ================================================================ properties
\* The lifecycle state of the record.
Lifecycle ==
    IF _process = 0 THEN "Unstarted"
    ELSE IF exit_code = <<>> THEN "Running"
    ELSE "Terminated"

\* A step in which a call of output() / error() ends, by returning or raising.
OutputEnds ==
    /\ (\E join \in BOOLEAN : Output(join)) \/ OutputJoined \/ OutputReadDone
    /\ pc' = "idle"
ErrorEnds ==
    /\ (\E join \in BOOLEAN : Error(join)) \/ ErrorJoined \/ ErrorReadDone
    /\ pc' = "idle"

\* A step that is a call of join, output, error, signal, terminate or kill.
HandleCall ==
    \/ \E timeout \in BOOLEAN : Join(timeout)
    \/ \E join \in BOOLEAN : Output(join)
    \/ \E join \in BOOLEAN : Error(join)
    \/ \E sig \in Signals : Signal(sig)
    \/ Terminate
    \/ Kill

\* The bytes of a sequence that come from the child's stderr.
IsErrByte(b) == b > 10 /\ b <= 20
ErrBytes(s) == SelectSeq(s, IsErrByte)

\* An exception has left the scope of a blocking record: __exit__ closed the
\* stdout and stderr handles without reading them.
ClosedUnread == variant = "blocking" /\ scope = "raised"

\* ------------------------------------------------------------------------ C1
\* C1: in both variants, run() on a record without a handle whose creation
\* succeeds gives the record a handle with a running child and no exit status
\* (Unstarted to Running); every run() on a record that has a handle, its child
\* running or exited, raises ProcessAlreadyRunError and leaves the handle, the
\* child and both accumulators as they were.
C1_RunOnceThenAlreadyRun ==
    [][\A ok \in BOOLEAN, scoped \in BOOLEAN :
          Run(ok, scoped) =>
              IF _process = 0
              THEN ok => (/\ Lifecycle = "Unstarted"
                          /\ Lifecycle' = "Running"
                          /\ _process' # 0
                          /\ child'.state = "running")
              ELSE /\ lastErr' = "ProcessAlreadyRunError"
                   /\ UNCHANGED <<handle, child, accs>>]_vars

\* A second run() was refused on a record whose child has exited and whose
\* output was accumulated.
C1_Witness ==
    /\ lastErr = "ProcessAlreadyRunError"
    /\ Exited
    /\ _output # <<>>

\* ------------------------------------------------------------------------ C2
\* C2: on a record that was never spawned, join (with or without timeout),
\* output and error (join true or false), signal, terminate and kill each
\* raise ProcessNotRunError at once, and the record stays Unstarted with both
\* accumulators empty.
C2_NotRunBeforeSpawn ==
    [][(_process = 0 /\ HandleCall) =>
          /\ lastErr' = "ProcessNotRunError"
          /\ pc' = "idle"
          /\ Lifecycle' = "Unstarted"
          /\ child' = NoChild
          /\ _output' = <<>> /\ _error' = <<>>]_vars

\* A call was refused on a record on which run() was never called.
C2_Witness ==
    /\ spawns = 0
    /\ lastErr = "ProcessNotRunError"
    /\ Lifecycle = "Unstarted"

\* ------------------------------------------------------------------------ C3
\* The error the claim names for a stream that is not a pipe.
NoStreamErr == IF _process = 0 THEN "ProcessNotRunError" ELSE "ProcessInvalidStreamError"

\* C3: when stdin, stdout or stderr was given a disposition other than PIPE
\* (None, DEVNULL, a descriptor, a file; STDOUT for stderr), every access of
\* that stream's raw handle and every call of its accumulator method (output
\* for stdout, error for stderr) that ends, ends with
\* ProcessInvalidStreamError, the child running or exited, and leaves the
\* accumulator alone; before run() it ends with ProcessNotRunError.
C3_InvalidStream ==
    [][/\ (Access("stdin") /\ _stdin = "NOPIPE") => lastErr' = NoStreamErr
       /\ (Access("stdout") /\ _stdout = "NOPIPE") => lastErr' = NoStreamErr
       /\ (Access("stderr") /\ _stderr \in {"NOPIPE", "STDOUT"}) => lastErr' = NoStreamErr
       /\ (OutputEnds /\ _stdout = "NOPIPE") =>
              (lastErr' = NoStreamErr /\ _output' = _output)
       /\ (ErrorEnds /\ _stderr \in {"NOPIPE", "STDOUT"}) =>
              (lastErr' = NoStreamErr /\ _error' = _error)]_vars

\* An access was refused with ProcessInvalidStreamError after the child exited.
C3_Witness ==
    /\ lastErr = "ProcessInvalidStreamError"
    /\ Exited
    /\ _stdout = "NOPIPE"
    /\ _stderr = "STDOUT"

\* ------------------------------------------------------------------------ C4
\* C4: when the process-creation primitive fails, run() raises ProcessError
\* (the base class itself) and the record stays Unstarted: no handle, no child,
\* nothing else changed; and as long as it is in that state join, output, error,
\* signal, terminate and kill raise ProcessNotRunError.
C4_SpawnFailed ==
    /\ [][\A scoped \in BOOLEAN :
            (Run(FALSE, scoped) /\ _process = 0) =>
                /\ lastErr' = "ProcessError"
                /\ Lifecycle' = "Unstarted"
                /\ child' = NoChild
                /\ UNCHANGED <<_process, returncode, stdinS, stdoutS, stderrS, accs, pc,
                               scope>>]_vars
    /\ [][(lastErr = "ProcessError" /\ Idle /\ HandleCall) =>
            lastErr' = "ProcessNotRunError"]_vars
    /\ [](lastErr = "ProcessError" /\ Idle => _process = 0)

\* run() has just failed on creation.
C4_Witness ==
    /\ lastErr = "ProcessError"
    /\ spawns = 1
    /\ Lifecycle = "Unstarted"

\* ------------------------------------------------------------------------ C5
\* The claim as the specification states it: a record carries out at most
\* one spawn attempt, success or failure.
C5_SingleUse == spawns <= 1

\* C5 (amended): a record carries out at most one successful spawn.  A run()
\* on a record without a handle always invokes the process-creation primitive,
\* also after earlier calls failed with ProcessError, and moves the record to
\* Running when creation succeeds; only a record that has a handle refuses
\* run() without invoking the primitive.
C5_RetryAfterFailure ==
    [][\A ok \in BOOLEAN, scoped \in BOOLEAN :
          Run(ok, scoped) =>
              IF _process = 0
              THEN /\ spawns' = spawns + 1
                   /\ ok => (_process' # 0 /\ Lifecycle' = "Running")
                   /\ ~ok => _process' = 0
              ELSE /\ spawns' = spawns
                   /\ _process' = _process]_vars

\* The record is Running with the handle of its second spawn attempt.
C5_Witness ==
    /\ spawns = 2
    /\ _process = 2
    /\ Running

\* ------------------------------------------------------------------------ C6
\* C6: in both variants, join(timeout) on a record whose child has not exited
\* when the deadline passes raises ProcessTimeoutError and changes nothing else:
\* the child keeps running (no signal), exit_code stays None, the stream
\* handles and both accumulators are as before.
C6_TimeoutChangesNothing ==
    [][(Join(TRUE) /\ _process # 0 /\ ~Exited) =>
          /\ lastErr' = "ProcessTimeoutError"
          /\ child' = child
          /\ child'.state = "running"
          /\ exit_code = <<>> /\ returncode' = <<>>
          /\ UNCHANGED <<config, _process, spawns, stdinS, stdoutS, stderrS, accs, os, feed,
                         hist, pc, scope>>]_vars

\* A join has timed out on a child that is running.
C6_Witness ==
    /\ lastErr = "ProcessTimeoutError"
    /\ Running
    /\ exit_code = <<>>
    /\ stdoutS = "open"

\* ------------------------------------------------------------------------ C7
\* C7: a join() without timeout that follows a join(timeout) that raised
\* ProcessTimeoutError returns, without error, once the child has exited;
\* when it returns exit_code is not None, and exit_code never changes once it
\* is not None.
C7_JoinAfterTimeout ==
    /\ (pc = "join" /\ lastErr = "ProcessTimeoutError" /\ Exited)
           ~> (Idle /\ lastErr = "none" /\ exit_code # <<>>)
    /\ [][JoinDone => (lastErr' = "none" /\ pc' = "idle" /\ returncode' # <<>>)]_vars
    /\ [][exit_code # <<>> => returncode' = exit_code]_vars

\* The join() that follows the timed-out join(timeout) is waiting and the
\* child has exited.
C7_Witness ==
    /\ pc = "join"
    /\ lastErr = "ProcessTimeoutError"
    /\ Exited

\* ------------------------------------------------------------------------ C8
\* C8: once the child has exited and nothing is left in its stdout pipe, no
\* step changes the output accumulator and every output(join=True) returns
\* exactly the accumulator, so successive calls, also after the scope was
\* left or close() was called, return the same bytes; the same for the stderr
\* pipe, the error accumulator and error(join=True).
C8_OutputIdempotent ==
    [][/\ (Exited /\ outPipe = <<>> /\ _stdout = "PIPE") =>
              /\ _output' = _output
              /\ OutputJoined => (lastErr' = "none" /\ lastVal' = _output)
       /\ (Exited /\ errPipe = <<>> /\ _stderr = "PIPE") =>
              /\ _error' = _error
              /\ ErrorJoined => (lastErr' = "none" /\ lastVal' = _error)]_vars

\* output() has returned the whole output of the program after the scope was
\* left, which had drained the pipe.
C8_Witness ==
    /\ scope = "left"
    /\ Exited /\ outPipe = <<>>
    /\ lastErr = "none"
    /\ lastVal = program.out
    /\ lastVal # <<>>
    /\ lastVal = _output

C10_MergedIntoAccumulator ==
    [][(OutputEnds /\ lastErr' = "none" /\ _stderr = "STDOUT" /\ _stdout = "PIPE") =>
          ErrBytes(lastVal') = ErrBytes(sentOut)]_vars

\* C10 (amended): with stderr merged into a piped stdout, every byte the child
\* writes to stderr goes into the stdout pipe and, unless the caller read it
\* through the raw stdout handle or an exception leaving the scope of a
\* blocking record closed the handle, is in the accumulator output() returns;
\* every error() that ends raises ProcessInvalidStreamError, and the error
\* accumulator stays empty.
C10_MergedIntoStdout ==
    /\ [][(_stderr = "STDOUT" /\ _stdout = "PIPE") =>
            /\ (OutputEnds /\ lastErr' = "none" /\ ~ClosedUnread) =>
                   /\ lastVal' = _output'
                   /\ ErrBytes(rawOut \o lastVal') = ErrBytes(sentOut)
                   /\ child.status = 0 => ErrBytes(sentOut) = program.err
            /\ (ErrorEnds /\ _process # 0) => lastErr' = "ProcessInvalidStreamError"]_vars
    /\ []((_stderr = "STDOUT" /\ _stdout = "PIPE") =>
            (_error = <<>> /\ errPipe = <<>> /\ sentErr = <<>>))

\* output() has returned the stderr bytes of the program, merged.
C10_Witness ==
    /\ _stderr = "STDOUT" /\ _stdout = "PIPE"
    /\ rawOut = <<>>
    /\ lastErr = "none"
    /\ program.err # <<>>
    /\ ErrBytes(lastVal) = program.err

\* ----------------------------------------------------------------------- C11
\* The bytes of the stdin buffer that run() has written into the pipe so far.
SentIn ==
    IF _stdin = "BYTES" /\ _process # 0
    THEN Take(InData(MaxIn), MaxIn - Len(feed))
    ELSE <<>>

\* C11: with a byte buffer as stdin, run() creates the child with a stdin
\* pipe and does not return before the feed; when it returns without error the
\* whole buffer has been written into the pipe, in order, and the pipe is
\* closed; the child is given end-of-input only after it has read every byte
\* of the buffer; and output() on a line-echo child that ran to its end
\* returns exactly the buffer (nothing raw-read, handle not closed unread).
C11_FeedsWholeBuffer ==
    /\ [][\A scoped \in BOOLEAN :
            (Run(TRUE, scoped) /\ _process = 0 /\ _stdin = "BYTES") =>
                (stdinS' = "open" /\ SentIn' = <<>> /\ Feeding')]_vars
    /\ [][(Feeding /\ ~Feeding' /\ lastErr' = "none") =>
            (SentIn' = InData(MaxIn) /\ stdinS' = "closed")]_vars
    /\ [][(_stdin = "BYTES" /\ ChildRead) =>
            IF child'.eof
            THEN SentIn = InData(MaxIn) /\ inPipe = <<>> /\ stdinS = "closed"
            ELSE child'.outLeft \o inPipe' = inPipe]_vars
    /\ [][(/\ OutputEnds /\ lastErr' = "none"
           /\ _stdin = "BYTES" /\ program.cat /\ child.status = 0
           /\ rawOut = <<>> /\ ~ClosedUnread) =>
            lastVal' = InData(MaxIn)]_vars

\* output() has returned the buffer, echoed by the child.
C11_Witness ==
    /\ _stdin = "BYTES" /\ program.cat
    /\ stdinS = "closed"
    /\ lastErr = "none"
    /\ lastVal = InData(MaxIn)
    /\ lastVal = _output

\* ----------------------------------------------------------------------- C12
\* C12: entering the scope on a record without a handle spawns it; inside the
\* scope exit_code is None while the child is running; and when a scope exit
\* without exception returns, the child has exited, exit_code is its exit
\* status, running is false, and each accumulator holds exactly the bytes the
\* child put into that pipe that were not read through the raw handle.
C12_ScopeSpawnsAndDrains ==
    /\ [][\A scoped \in BOOLEAN :
            (Run(TRUE, scoped) /\ _process = 0 /\ scope' = "inside") =>
                (_process' # 0 /\ child'.state = "running")]_vars
    /\ [][(scope # "inside" /\ scope' = "inside") => (_process' # 0 /\ child'.state # "none")]_vars
    /\ []((scope = "inside" /\ Running) => exit_code = <<>>)
    /\ [][ExitJoined =>
            /\ Exited /\ child' = child
            /\ returncode' = <<child.status>>
            /\ ~running'
            /\ scope' = "left" /\ lastErr' = "none"
            /\ _stdout = "PIPE" => (rawOut \o _output' = sentOut /\ outPipe' = <<>>)
            /\ _stderr = "PIPE" => (rawErr \o _error' = sentErr /\ errPipe' = <<>>)]_vars

\* The scope was left without exception: the exit status is recorded and the
\* accumulators hold the whole output of the program.
C12_Witness ==
    /\ scope = "left"
    /\ exit_code = <<0>>
    /\ ~running
    /\ _output = program.out /\ _output # <<>>
    /\ _error = program.err /\ _error # <<>>

\* ----------------------------------------------------------------------- C13
\* A step in which the scope is left, with or without an exception.
ScopeLeft == scope = "inside" /\ scope' # "inside"

\* The claim as the specification states it: however the scope is left, when
\* the exit returns the child has exited and what was left in the stdout and
\* stderr pipes is in the accumulators.
C13_DrainOnEveryExit ==
    [][ScopeLeft =>
          /\ child'.state = "exited"
          /\ _stdout = "PIPE" => (rawOut \o _output' = sentOut /\ outPipe' = <<>>)
          /\ _stderr = "PIPE" => (rawErr \o _error' = sentErr /\ errPipe' = <<>>)]_vars

\* C13 (amended): on every exit path the scope exit closes an open stdin pipe
\* and raises nothing.  Only an exit without exception waits for the child and
\* drains: the child has then exited, its status is recorded and the pipes are
\* empty, their bytes in the accumulators.  An exit with an exception changes
\* neither the child nor the exit status nor an accumulator.
C13_DrainOnNormalExitOnly ==
    [][ScopeLeft =>
          /\ stdinS' # "open"
          /\ lastErr' = "none"
          /\ IF scope' = "left"
             THEN /\ child'.state = "exited" /\ returncode' = <<child'.status>>
                  /\ _stdout = "PIPE" => (rawOut \o _output' = sentOut /\ outPipe' = <<>>)
                  /\ _stderr = "PIPE" => (rawErr \o _error' = sentErr /\ errPipe' = <<>>)
             ELSE /\ scope' = "raised"
                  /\ UNCHANGED <<child, returncode, accs>>]_vars

\* An exception has left the scope of a blocking record: the child is still
\* running and bytes of its output were dropped, the accumulator empty.
C13_Witness ==
    /\ scope = "raised"
    /\ variant = "blocking"
    /\ Running
    /\ lostOut # <<>>
    /\ _output = <<>>
    /\ stdinS = "closed"

CloseEnds == (Close \/ CloseJoined) /\ pc' = "idle"

\* C15: close() never raises, whatever the state of the record (never
\* spawned, child running, child exited) and whatever the dispositions: every
\* call of close() that ends, ends by returning.
C15_CloseNeverRaises == [][CloseEnds => lastErr' = "none"]_vars

\* A close() of an asyncio record whose child had exited has raised
\* ProcessLookupError from its terminate() step: stdin, which only close()
\* closes outside a scope, is closed, and the join and the drains were not
\* reached, the bytes of the child still in the pipe.
C15_CloseAfterExitRaises ==
    /\ variant = "asyncio"
    /\ _stdin = "PIPE" /\ scope = "none"
    /\ Exited /\ exit_code # <<>>
    /\ lastErr = "ProcessLookupError"
    /\ stdinS = "closed"
    /\ outPipe # <<>> /\ _output = <<>>

SignalCall == _process # 0 /\ (Terminate \/ Kill \/ \E sig \in Signals : Signal(sig))

\* A normal scope exit is waiting for a child that received a signal.
SignalledExit == pc = "exit_join" /\ child.got # 0

\* The part of C18 every signal obeys: the call is over in one step, whether
\* or not the child has exited by then, and leaves the stream handles, the
\* pipes and both accumulators as they were.
SignalOnlyForwards ==
    [][SignalCall =>
        /\ pc' = "idle"
        /\ UNCHANGED <<stdinS, stdoutS, stderrS, accs, inPipe, outPipe, errPipe, feed>>
        /\ (lastErr' = "none" => child' = Deliver(SIGTERM) \/ child' = Deliver(SIGKILL))]_vars

Refused == variant = "asyncio" /\ returncode # <<>>

JoinReturns ==
    /\ (\E timeout \in BOOLEAN : Join(timeout)) \/ JoinDone
    /\ pc' = "idle" /\ lastErr' = "none"

\* C20: on a record with a handle, exit_code is None and `running` is true
\* for as long as the child is running; when join() has returned without
\* error, exit_code is the child's status and `running` is false; from then
\* on no operation changes exit_code or makes `running` true again.
C20_ExitCodeStable ==
    /\ []((_process # 0 /\ Running) => (exit_code = <<>> /\ running))
    /\ [][JoinReturns => (exit_code' = <<child.status>> /\ ~running')]_vars
    /\ [][exit_code # <<>> => (exit_code' = exit_code /\ ~running /\ ~running')]_vars

\* After exit_code was set, a later run() was refused; exit_code is still the
\* status kill() gave the child.
C20_Witness ==
    /\ exit_code = <<0 - SIGKILL>> /\ ~running
    /\ Idle /\ lastErr = "ProcessAlreadyRunError"
    /\ variant = "blocking" /\ scope = "none"

\* ----------------------------------------------------------------------- C21
\* C21: the lifecycle is monotonic: every step leaves the lifecycle state as
\* it is or moves it Unstarted -> Running or Running -> Terminated; a handle
\* that has been set is never cleared and never replaced, so the record holds
\* at most one handle in its whole life.
C21_LifecycleMonotonic ==
    [][/\ _process # 0 => _process' = _process
       /\ \/ Lifecycle' = Lifecycle
          \/ Lifecycle = "Unstarted" /\ Lifecycle' = "Running"
          \/ Lifecycle = "Running" /\ Lifecycle' = "Terminated"]_vars

\* A record that got its handle at the second attempt, whose child has
\* terminated, has refused another run().
C21_Witness ==
    /\ Lifecycle = "Terminated"
    /\ spawns = 2 /\ _process = 2
    /\ lastErr = "ProcessAlreadyRunError"
    /\ Idle

\* ----------------------------------------------------------------------- C22
\* A sequence without the characters of `cs`, the concatenation of a list of
\* strings, and the number of places where a word begins in a string.
Without(s, cs) == SelectSeq(s, LAMBDA c : c \notin cs)
RECURSIVE Flat(_)
Flat(q) == IF q = <<>> THEN <<>> ELSE Head(q) \o Flat(Tail(q))
WordStarts(s) == Cardinality({i \in 1..Len(s) : s[i] # " " /\ (i = 1 \/ s[i - 1] = " ")})

\* The two command strings of the claim, with `a` for every word:
\* "a a a" and "a 'a a'".
ThreeWords == <<"a", " ", "a", " ", "a">>
QuotedGroup == <<"a", " ", "'", "a", " ", "a", "'">>

\* C22: the argument vector of a constructed record.  A command string is
\* split with shell quoting: "a a a" gives three tokens and "a 'a a'" gives
\* two, the quoted group kept as one token with its blank; no token holds a
\* quote character, the tokens in order spell the string without its quotes
\* and separating blanks, and a string without quotes gives one non-empty,
\* blank-free token per word.  An explicit sequence is kept element for
\* element in the same order, and one path-like value gives a vector of one
\* element.
C22_ArgumentResolution ==
    pc = "idle" =>
        /\ arguments = Str(ThreeWords) => _arguments = <<<<"a">>, <<"a">>, <<"a">>>>
        /\ arguments = Str(QuotedGroup) => _arguments = <<<<"a">>, <<"a", " ", "a">>>>
        /\ arguments.kind = "str" =>
               /\ \A i \in 1..Len(_arguments) : Without(_arguments[i], {"'"}) = _arguments[i]
               /\ Without(Flat(_arguments), {" "}) = Without(arguments.val, {" ", "'"})
               /\ Without(arguments.val, {"'"}) = arguments.val =>
                      /\ Len(_arguments) = WordStarts(arguments.val)
                      /\ \A i \in 1..Len(_arguments) :
                             /\ _arguments[i] # <<>>
                             /\ Without(_arguments[i], {" "}) = _arguments[i]
        /\ arguments.kind = "seq" =>
               /\ Len(_arguments) = Len(arguments.val)
               /\ \A i \in 1..Len(_arguments) : _arguments[i] = arguments.val[i].val
        /\ arguments.kind = "path" => _arguments = <<arguments.val>>

\* A record constructed with the command string "a 'a a'".
C22_Witness ==
    /\ pc = "idle"
    /\ arguments = Str(QuotedGroup)
    /\ _arguments = <<<<"a">>, <<"a", " ", "a">>>>

Deadlocked ==
    /\ Feeding /\ feed # <<>> /\ Len(inPipe) = PipeCap
    /\ Running /\ child.outLeft # <<>>
    /\ OutGoesToPipe /\ stdoutS = "open" /\ Len(outPipe) = PipeCap
    /\ ~ReadingOut

\* C24: feeding an in-memory stdin buffer can deadlock.  The state above is
\* reachable, and no step leads out of it: the buffer, both pipes and the
\* child's pending output stay as they are, the child does not read and does
\* not exit, and run() does not return.
C24_FeedDeadlock ==
    [][Deadlocked =>
          /\ Deadlocked'
          /\ UNCHANGED <<pc, feed, inPipe, outPipe, handle, accs, last, scope>>
          /\ child'.outLeft = child.outLeft /\ child'.state = "running"]_vars

\* A blocking record in the deadlock: its child has filled the stdout pipe
\* and has more to write, and has read nothing of the stdin buffer.
C24_Witness ==
    /\ Deadlocked
    /\ variant = "blocking"
    /\ sentOut # <<>> /\ child.outLeft # <<>>
    /\ feed # <<>> /\ inPipe # <<>>
    /\ _process # 0 /\ lastErr = "none" /\ _output = <<>>

\* ----------------------------------------------------------------------- C25
\* C25 as stated: close() on a Running record eventually returns, whatever
\* the child does.
C25_CloseAlwaysReturns == (pc = "close_join") ~> (pc = "idle")

\* C25, amended: the request close() sends before it joins is the graceful
\* one, which a child may ignore.  A child that does not ignore it has exited
\* when close() begins to wait, and close() returns with exit_code set; a child
\* that ignores it is still running, and close() waits for as long as it runs.
C25_CloseReturnsUnlessIgnored ==
    /\ [][(Close /\ pc' = "close_join" /\ Running) =>
            /\ child' = Deliver(SIGTERM)
            /\ child'.state = (IF program.lives = "stubborn" THEN "running" ELSE "exited")]_vars
    /\ ((pc = "close_join" /\ program.lives # "stubborn") ~> (pc = "idle" /\ exit_code # <<>>))
    /\ []((pc = "close_join" /\ Running) =>
            /\ program.lives = "stubborn" /\ child.got = SIGTERM
            /\ ~ENABLED CloseJoined)

\* close() is waiting for a child that received and ignored its request.
C25_Witness ==
    /\ pc = "close_join"
    /\ Running /\ program.lives = "stubborn" /\ child.got = SIGTERM
    /\ stdinS # "open" /\ exit_code = <<>>

\* ----------------------------------------------------------------------- C26
\* A step in which a run() that began on a record without a handle ends.
RunEnds ==
    /\ \/ _process = 0 /\ \E ok \in BOOLEAN, scoped \in BOOLEAN : Run(ok, scoped)
       \/ FeedWrite
       \/ FeedDone
    /\ pc' = "idle"

\* C26: run() has two outcomes: it returns and the record has a handle, or
\* it raises and the record has none; it never raises with a handle set, a
\* failed write of the stdin buffer included.
C26_RunTwoOutcomes ==
    [][RunEnds => IF lastErr' = "none" THEN _process' # 0 ELSE _process' = 0]_vars

\* run() has raised BrokenPipeError out of the write of the stdin buffer, to
\* a child that exited without reading it; the record holds the handle.
C26_RunRaisedWithHandle ==
    /\ lastErr = "BrokenPipeError"
    /\ _process # 0 /\ Exited
    /\ Idle /\ feed # <<>>
    /\ _stdin = "BYTES"

\* ----------------------------------------------------------------------- C27
\* C27: normal scope exit and close() close an open stdin pipe before they
\* join: while either waits in its join, stdin is not open.  So a child that
\* runs until end-of-input on a piped stdin that was never written to sees
\* end-of-input and exits, and the normal scope exit completes with exit_code
\* set.
C27_StdinClosedBeforeJoin ==
    /\ [](pc \in {"exit_join", "close_join"} => stdinS # "open")
    /\ [][(Exit(FALSE) \/ (Close /\ pc' = "close_join")) =>
            (stdinS # "absent" => stdinS' = "closed")]_vars
    /\ ((pc = "exit_join" /\ program.cat /\ _stdin = "PIPE")
            ~> (scope = "left" /\ exit_code # <<>>))

\* The scope of a record with stdin=PIPE was left normally: its child, which
\* copies stdin until end-of-input, saw it and exited by itself.
C27_Witness ==
    /\ scope = "left" /\ Idle /\ lastErr = "none"
    /\ program.cat /\ _stdin = "PIPE" /\ stdinS = "closed"
    /\ child.eof /\ child.got = 0
    /\ exit_code = <<0>>

\* ----------------------------------------------------------------------- C28
\* The stdout pipe is closed, or exhausted: the child has exited and nothing
\* is left in the pipe.  The same for stderr.
OutDone == Closed(stdoutS) \/ (Exited /\ outPipe = <<>>)
ErrDone == Closed(stderrS) \/ (Exited /\ errPipe = <<>>)

\* C28: when the stdout pipe of a record created with stdout=PIPE is closed
\* or exhausted, whoever closed or emptied it, an output() call that ends
\* returns, raises nothing, and returns the accumulator exactly as it was;
\* the same for error() and the stderr pipe.
C28_NothingMoreToRead ==
    [][/\ (OutputEnds /\ _process # 0 /\ _stdout = "PIPE" /\ OutDone) =>
              /\ lastErr' = "none"
              /\ lastVal' = _output /\ _output' = _output
              /\ UNCHANGED <<outPipe, stdoutS, rawOut, lostOut>>
       /\ (ErrorEnds /\ _process # 0 /\ _stderr = "PIPE" /\ ErrDone) =>
              /\ lastErr' = "none"
              /\ lastVal' = _error /\ _error' = _error
              /\ UNCHANGED <<errPipe, stderrS, rawErr, lostErr>>]_vars

\* output() returned the accumulator of a blocking record whose stdout
\* handle close() had closed after draining it.
C28_Witness ==
    /\ variant = "blocking" /\ stdoutS = "closed"
    /\ Idle /\ lastErr = "none"
    /\ lastVal = _output /\ lastVal # <<>> /\ lastVal = sentOut
    /\ child.got = SIGTERM /\ scope = "none"

\* ----------------------------------------------------------------------- C29
\* a is a prefix of b; a is a contiguous piece of b.
IsPrefix(a, b) == Len(a) <= Len(b) /\ SubSeq(b, 1, Len(a)) = a
IsPiece(a, b) == \E i \in 0..(Len(b) - Len(a)) : SubSeq(b, i + 1, i + Len(a)) = a

\* C29: each accumulator is append-only: no step of any operation, of the
\* child or of the event loop takes a byte away from it or changes one, so
\* its value at a state is a prefix of its value at every later state; and it
\* is always a contiguous piece of the bytes the child put into its stdout
\* (stderr) pipe, in the child's order, none twice.
C29_AppendOnly ==
    /\ [][IsPrefix(_output, _output') /\ IsPrefix(_error, _error')]_vars
    /\ [](IsPiece(_output, sentOut) /\ IsPiece(_error, sentErr))

\* A destroyed record that holds output taken after a raw read, and error
\* output: each accumulator is a piece of what the child wrote.
C29_Witness ==
    /\ pc = "destroyed"
    /\ rawOut # <<>> /\ _output # <<>> /\ rawOut \o _output = sentOut
    /\ _error # <<>>

\* ----------------------------------------------------------------------- C30
\* C30: destruction of a record with a handle closes an open stdin pipe and,
\* if the child is still running, sends it the termination request; it leaves
\* both accumulators alone.  The asyncio variant ends there: no join, no
\* read, stdout and stderr as they were.  The blocking variant joins when the
\* child was still running and then, or at once when it was not, closes the
\* stdout and stderr handles without reading them: what is unread is lost.
C30_Destruction ==
    /\ [][(Destroy /\ _process # 0) =>
            /\ stdinS # "absent" => stdinS' = "closed"
            /\ UNCHANGED accs
            /\ Running => (child' = Deliver(SIGTERM) /\ child'.got = SIGTERM)
            /\ ~Running => child' = child
            /\ IF variant = "asyncio"
               THEN /\ pc' = "destroyed"
                    /\ UNCHANGED <<stdoutS, stderrS, outPipe, errPipe, lostOut, lostErr>>
               ELSE IF Running
               THEN /\ pc' = "del_join"
                    /\ UNCHANGED <<stdoutS, stderrS, outPipe, errPipe, lostOut, lostErr>>
               ELSE /\ pc' = "destroyed"
                    /\ stdoutS' # "open" /\ stderrS' # "open"]_vars
    /\ [][DestroyJoined =>
            /\ variant = "blocking" /\ Exited
            /\ pc' = "destroyed"
            /\ UNCHANGED <<accs, stdinS, child>>
            /\ stdoutS' # "open" /\ stderrS' # "open"
            /\ stdoutS = "open" => (outPipe' = <<>> /\ lostOut' = lostOut \o outPipe)
            /\ stderrS = "open" => (errPipe' = <<>> /\ lostErr' = lostErr \o errPipe)]_vars

\* A blocking record was destroyed while its child ran: the child was
\* terminated, and the output it had written was never read.
C30_Witness ==
    /\ pc = "destroyed" /\ variant = "blocking"
    /\ child.got = SIGTERM /\ Exited
    /\ stdoutS = "closed" /\ lostOut # <<>> /\ _output = <<>>
    /\ returncode = <<0 - SIGTERM>>

\* ------------------------------------------------------------------- C31
\* C31: the constructed record is immutable.  No step of the lifecycle (run,
\* feed, join, output, error, signal, terminate, kill, close, scope exit,
\* destruction, nor anything the child does) changes the argument vector,
\* the three requested dispositions, the stdin argument or the buffering
\* hint; and after the caller has emptied the list the `arguments` accessor
\* returned, the record's argument vector is still the one the constructor
\* resolved.
C31_SpecImmutable ==
    [][ /\ _arguments' = _arguments
        /\ _stdin' = _stdin /\ _stdout' = _stdout /\ _stderr' = _stderr
        /\ _buffer_size' = _buffer_size
        /\ _arguments' = Resolved(arguments)
        /\ (ClearListed => listed'.val # _arguments') ]_vars

\* The record has been run, closed and destroyed, the caller has emptied a
\* list it got from the accessor, and the record still has its two arguments.
C31_Witness ==
    /\ pc = "destroyed" /\ spawns > 0 /\ returncode # <<>>
    /\ listed.held /\ listed.val = <<>>
    /\ Len(_arguments) = 2 /\ _arguments = Resolved(arguments)

\* ------------------------------------------------------------------- C32
\* C32: every record the constructor returns has a non-empty argument vector:
\* whatever command string, path or sequence it is given, once the
\* constructor has returned self._arguments has a first element, the
\* executable.
C32_VectorNeverEmpty ==
    (pc = "idle" /\ lastErr = "none") => Len(_arguments) >= 1

\* The constructor has returned for a command string of blanks only, and the
\* record's argument vector is empty.
C32_EmptyVectorConstructed ==
    /\ pc = "idle" /\ lastErr = "none"
    /\ arguments.kind = "str" /\ Len(arguments.val) >= 1
    /\ _arguments = <<>>

\* ------------------------------------------------------------------- C33
\* The caller is inside the join of output(join=True), error(join=True) or a
\* normal __exit__.
Joining == pc \in {"output_join", "error_join", "exit_join"}

\* The child has a byte to write into a pipe of the record that is full and
\* that nobody reads.
WriteBlocked ==
    \/ /\ child.outLeft # <<>> /\ OutGoesToPipe /\ stdoutS = "open"
       /\ Len(outPipe) = PipeCap /\ ~ReadingOut
    \/ /\ child.errLeft # <<>> /\ ErrGoesTo = "errPipe" /\ stderrS = "open"
       /\ Len(errPipe) = PipeCap /\ ~ReadingErr
    \/ /\ child.errLeft # <<>> /\ ErrGoesTo = "outPipe" /\ stdoutS = "open"
       /\ Len(outPipe) = PipeCap /\ ~ReadingOut

\* C33: whatever a child writes, the join that output(join=True),
\* error(join=True) and a normal scope exit perform before they drain never
\* leaves the caller waiting for a child that exits once its writes are done
\* and that is itself blocked writing to a full pipe.
C33_JoinNeverBlocksOnFullPipe ==
    ~(Joining /\ Running /\ program.lives = "exits" /\ WriteBlocked)

\* A child with more output than the pipe holds, and the caller in
\* output(join=True): the pipe is full, the child has a byte left, the caller
\* waits for its exit, and no step of the caller, the child or the operating
\* system is possible.
C33_JoinDeadlock ==
    /\ pc = "output_join" /\ Running /\ program.lives = "exits"
    /\ child.outLeft # <<>> /\ Len(outPipe) = PipeCap /\ stdoutS = "open"
    /\ Len(sentOut) = PipeCap
    /\ _output = <<>> /\ returncode = <<>>
    /\ ~ENABLED Next

\* ------------------------------------------------------------------- C34
\* The handles the tasks' creation calls have returned: one child each.
ChildrenCreated == {tasks[t].got : t \in DOMAIN tasks} \ {0}

\* C34: when two tasks call run() on one fresh asyncio record, at most one
\* child is created and at most one handle is ever stored in the record, and
\* once a call has stored a handle every other call that has ended has failed
\* with ProcessAlreadyRunError.
C34_AtMostOneChild ==
    /\ Cardinality(ChildrenCreated) <= 1
    /\ \A t \in DOMAIN tasks, u \in DOMAIN tasks :
          (t # u /\ tasks[t].got # 0 /\ tasks[u].at = "done") =>
              tasks[u].err = "ProcessAlreadyRunError"

\* Both calls have passed the check before either was resumed: two children
\* exist, both calls have returned without an error, and the record holds the
\* handle of the second, the first being overwritten.
C34_TwoChildren ==
    /\ variant = "asyncio"
    /\ \E t \in Tasks, u \in Tasks :
          /\ tasks[t].at = "done" /\ tasks[t].err = "none" /\ tasks[t].got = 1
          /\ tasks[u].at = "done" /\ tasks[u].err = "none" /\ tasks[u].got = 2
    /\ Cardinality(ChildrenCreated) = 2
    /\ _process = 2 /\ spawns = 2

\* ------------------------------------------------------------------- C35
\* C35: output(join=True) and error(join=True) join before they look at the
\* stream.  Called on a spawned record whose stream is not a pipe, the call
\* begins to wait without an error; it stops waiting only when the child has
\* exited, and then raises ProcessInvalidStreamError, so it never returns for
\* a child that never exits.  With join=False the call raises
\* ProcessInvalidStreamError at once, the child still running or not.
C35_JoinBeforeStreamCheck ==
    [][ /\ (Output(TRUE) /\ process = "none" /\ stdout # "none") =>
              (pc' = "output_join" /\ lastErr' = lastErr /\ child' = child)
        /\ (Error(TRUE) /\ process = "none" /\ stderr # "none") =>
              (pc' = "error_join" /\ lastErr' = lastErr /\ child' = child)
        /\ (pc = "output_join" /\ ~Exited) => pc' = "output_join"
        /\ (pc = "error_join" /\ ~Exited) => pc' = "error_join"
        /\ (pc = "output_join" /\ pc' # "output_join" /\ stdout # "none") =>
              (pc' = "idle" /\ lastErr' = "ProcessInvalidStreamError")
        /\ (pc = "error_join" /\ pc' # "error_join" /\ stderr # "none") =>
              (pc' = "idle" /\ lastErr' = "ProcessInvalidStreamError")
        /\ (Output(FALSE) /\ process = "none" /\ stdout # "none") =>
              (pc' = "idle" /\ lastErr' = "ProcessInvalidStreamError" /\ child' = child)
        /\ (Error(FALSE) /\ process = "none" /\ stderr # "none") =>
              (pc' = "idle" /\ lastErr' = "ProcessInvalidStreamError" /\ child' = child) ]_vars

\* output(join=True) has been called on a record whose stdout is not a pipe
\* and whose child never exits: the call waits, and no error has been raised.
C35_Witness ==
    /\ pc = "output_join" /\ Running /\ program.lives = "forever"
    /\ _stdout # "PIPE" /\ stdout = "ProcessInvalidStreamError"
    /\ lastErr = "none"

\* ------------------------------------------------------------------- C36
\* The child has exited and the record has its exit status: it has been
\* joined.
Joined == process = "none" /\ returncode # <<>>

\* The drain blocks of close() still have something to do: a pipe the
\* blocking variant has to read and close, or bytes the asyncio variant has to
\* read.
Undrained ==
    \/ stdoutS = "open" /\ (variant = "blocking" \/ outPipe # <<>>)
    \/ stderrS = "open" /\ (variant = "blocking" \/ errPipe # <<>>)

C37_ExitNeverSignals ==
    [][ /\ ((\E exc \in BOOLEAN : Exit(exc)) \/ ExitJoined) => child' = child
        /\ Exit(TRUE) => (pc' = "idle" /\ returncode' = returncode)
        /\ (Exit(TRUE) /\ Running /\ exit_code = <<>>) => (Running' /\ exit_code' = <<>>)
        /\ pc = "exit_join" => child'.got = child.got
        /\ (pc = "exit_join" /\ ~Exited) => pc' = "exit_join"
        /\ (pc = "exit_join" /\ Running /\ program.lives # "exits") => Running' ]_vars

\* The scope has been left with an exception: the child, which never exits
\* on its own and has received no signal, is running, and exit_code is None.
C37_Witness ==
    /\ scope = "raised" /\ pc = "idle" /\ lastErr = "none"
    /\ Running /\ program.lives = "forever" /\ child.got = 0
    /\ exit_code = <<>>

====
